---- MODULE Spec2Model ----
(***************************************************************************)
(* INTERN: a single-threaded indexing and search daemon (src/main.rs).     *)
(* The model covers the text pipeline, the three tables of the store, the  *)
(* per-file re-index protocol, the free-text query engine and the server   *)
(* loop that interleaves filesystem events and client requests.            *)
(*                                                                         *)
(* Characters are Unicode code points (integers); a text or a word is a    *)
(* sequence of code points.  Paths are strings.                            *)
(***************************************************************************)
EXTENDS Integers, Sequences, FiniteSets, TLC

\* ------------------------------------------------------------------------
\* Generic helpers
\* ------------------------------------------------------------------------
Range(s) == {s[i] : i \in DOMAIN s}

SetMax(S) == CHOOSE m \in S : \A x \in S : x <= m

Perms(S) == {p \in [1..Cardinality(S) -> S] : \A x \in S : \E i \in DOMAIN p : p[i] = x}

RECURSIVE Concat(_)
Concat(ss) == IF ss = <<>> THEN <<>> ELSE Head(ss) \o Concat(Tail(ss))

RECURSIVE Pow(_, _)
Pow(b, e) == IF e = 0 THEN 1 ELSE b * Pow(b, e - 1)

\* lexicographic order on integer tuples of the same length
RECURSIVE LexLess(_, _)
LexLess(a, b) ==
  IF a = <<>> THEN FALSE
  ELSE IF Head(a) # Head(b) THEN Head(a) < Head(b)
  ELSE LexLess(Tail(a), Tail(b))

\* ------------------------------------------------------------------------
\* Text pipeline
\* ------------------------------------------------------------------------
\* The class of the regex punc: [\x00-\x26\x28-\x2F\x3A-\x40\x5B-\x60\x7B-\x7F]
IsPunc(c) == \/ c \in 0..38
             \/ c \in 40..47
             \/ c \in 58..64
             \/ c \in 91..96
             \/ c \in 123..127

\* char::is_whitespace (the White_Space code points up to U+00A0)
IsWhitespace(c) == c \in {9, 10, 11, 12, 13, 32, 133, 160}

\* punc.replace_all(text, " "): every maximal run of punctuation becomes one space
RECURSIVE ReplacePunc(_)
ReplacePunc(text) ==
  IF text = <<>> THEN <<>>
  ELSE IF IsPunc(Head(text))
       THEN IF Len(text) > 1 /\ IsPunc(text[2])
            THEN ReplacePunc(Tail(text))
            ELSE <<32>> \o ReplacePunc(Tail(text))
       ELSE <<Head(text)>> \o ReplacePunc(Tail(text))

\* str::split_whitespace: the non-empty maximal runs of non-whitespace
RECURSIVE SplitFrom(_, _)
SplitFrom(text, word) ==
  IF text = <<>> THEN (IF word = <<>> THEN <<>> ELSE <<word>>)
  ELSE IF IsWhitespace(Head(text))
       THEN (IF word = <<>> THEN <<>> ELSE <<word>>) \o SplitFrom(Tail(text), <<>>)
       ELSE SplitFrom(Tail(text), Append(word, Head(text)))

SplitWhitespace(text) == SplitFrom(text, <<>>)

\* punc.is_match(w)
PuncMatches(w) == \E i \in DOMAIN w : IsPunc(w[i])

\* alpha_only.split_whitespace().filter(|w| !punc.is_match(w))
Tokens(text) == SelectSeq(SplitWhitespace(ReplacePunc(text)), LAMBDA w : ~PuncMatches(w))

\* canonical decomposition of the precomposed letters of the model alphabet
NfdChar(c) == IF c = 233 THEN <<101, 769>>        \* e-acute
              ELSE IF c = 201 THEN <<69, 769>>    \* E-acute
              ELSE <<c>>

Nfd(w) == Concat([i \in DOMAIN w |-> NfdChar(w[i])])

\* The regex acc is \x{0300}-\x{035f} without brackets: it matches the three
\* code points U+0300, '-', U+035F in a row, and nothing else.
RECURSIVE RemoveAccents(_)
RemoveAccents(w) ==
  IF w = <<>> THEN <<>>
  ELSE IF Len(w) >= 3 /\ w[1] = 768 /\ w[2] = 45 /\ w[3] = 863
       THEN RemoveAccents(SubSeq(w, 4, Len(w)))
       ELSE <<Head(w)>> \o RemoveAccents(Tail(w))

LowerChar(c) == IF c \in 65..90 THEN c + 32 ELSE IF c = 201 THEN 233 ELSE c

ToLowercase(w) == [i \in DOMAIN w |-> LowerChar(w[i])]

IsVowel(c) == c \in {97, 101, 105, 111, 117, 121}

\* Stemmer::stem for Algorithm::English, restricted to the suffix rule the
\* model words exercise (step 1a): a final "s" that is not part of "ss" or
\* "us" is deleted when the part before it holds a vowel that is not the
\* letter right before the "s".
EnglishStem(w) ==
  IF /\ Len(w) >= 3
     /\ w[Len(w)] = 115
     /\ w[Len(w) - 1] \notin {115, 117}
     /\ \E i \in 1..(Len(w) - 2) : IsVowel(w[i])
  THEN SubSeq(w, 1, Len(w) - 1)
  ELSE w

RECURSIVE TrimStart(_)
TrimStart(w) == IF w # <<>> /\ IsWhitespace(Head(w)) THEN TrimStart(Tail(w)) ELSE w

RECURSIVE TrimEnd(_)
TrimEnd(w) == IF w # <<>> /\ IsWhitespace(w[Len(w)])
              THEN TrimEnd(SubSeq(w, 1, Len(w) - 1)) ELSE w

Trim(w) == TrimEnd(TrimStart(w))

stem_word(word) == Trim(EnglishStem(ToLowercase(RemoveAccents(Nfd(word)))))

\* ------------------------------------------------------------------------
\* The world of the model: paths, file contents and client requests
\* ------------------------------------------------------------------------
\* The configured folders: /q is listed with recurse false, /r with recurse
\* true.
Folders == <<[name |-> "/q", recurse |-> FALSE], [name |-> "/r", recurse |-> TRUE]>>

\* The directories below the configured folders, and the entries read_dir
\* yields for each.  /r holds a .gitignore, /r/d a .hgignore.
Dirs == {"/q", "/q/d", "/r", "/r/.git", "/r/.hg", "/r/d"}

read_dir(dir) ==
  CASE dir = "/q" -> {"/q/a", "/q/d"}
    [] dir = "/q/d" -> {"/q/d/x"}
    [] dir = "/r" -> {"/r/.git", "/r/.gitignore", "/r/.hg", "/r/b", "/r/d", "/r/s"}
    [] dir = "/r/.git" -> {"/r/.git/c"}
    [] dir = "/r/.hg" -> {"/r/.hg/c"}
    [] dir = "/r/d" -> {"/r/d/.hgignore", "/r/d/c", "/r/d/s", "/r/d/t"}

\* Path::is_dir
is_dir(path) == path \in Dirs

\* every file of the tree, and /r/c.svg, which appears after start-up; in
\* the byte order SQLite uses for ORDER BY f.path
Files == <<"/q/a", "/q/d/x", "/r/.git/c", "/r/.gitignore", "/r/.hg/c", "/r/b",
           "/r/c.svg", "/r/d/.hgignore", "/r/d/c", "/r/d/s", "/r/d/t", "/r/s">>

FileSet == Range(Files)

\* Path::exists for the ignore file of a directory
exists(path) == path \in FileSet

\* the three files that no rule keeps out of the index
Paths == <<"/q/a", "/r/b", "/r/d/c">>

PathSet == Range(Paths)

\* the byte order SQLite uses for ORDER BY f.path, on the model's paths
PathRank(p) == CHOOSE i \in DOMAIN Files : Files[i] = p

\* "fox"
TxtFox == <<102, 111, 120>>
\* "Dogs fox, dogs cafe fox." with U+00E9 for the last letter of "cafe"
TxtDogs == <<68, 111, 103, 115, 32, 102, 111, 120, 44, 32, 100, 111, 103, 115, 32,
             99, 97, 102, 233, 32, 102, 111, 120, 46>>

Texts == {TxtFox, TxtDogs}

\* The requests: the bytes sent, then the first of the NUL bytes that fill
\* the rest of the 4096-byte buffer.
\* "fox\n"
QFox == <<102, 111, 120, 10, 0>>
\* "fox dogs\n"
QFoxDogs == <<102, 111, 120, 32, 100, 111, 103, 115, 10, 0>>
\* "cafe dog fox\n" with U+00E9 (bytes C3 A9) for the last letter of "cafe"
QCafeDogFox == <<99, 97, 102, 195, 169, 32, 100, 111, 103, 32, 102, 111, 120, 10, 0>>
\* "emu dog\n"
QEmuDog == <<101, 109, 117, 32, 100, 111, 103, 10, 0>>
\* "cafe\n"
QCafe == <<99, 97, 102, 101, 10, 0>>
\* "@on 2023-11-15\n"
QOn15 == <<64, 111, 110, 32, 50, 48, 50, 51, 45, 49, 49, 45, 49, 53, 10, 0>>
\* "@ago 2023-11-16\n"
QAgo16 == <<64, 97, 103, 111, 32, 50, 48, 50, 51, 45, 49, 49, 45, 49, 54, 10, 0>>
\* "@on\n": no date
QOnNoDate == <<64, 111, 110, 10, 0>>
\* "f", then the byte FF, which no UTF-8 text holds
QNotUtf8 == <<102, 255, 10, 0>>

Buffers == {QFox, QFoxDogs, QCafeDogFox, QEmuDog, QCafe, QOn15, QAgo16, QOnNoDate,
            QNotUtf8}

\* Local::today().and_hms(0, 0, 0).timestamp(): the request comes on
\* 2023-11-15 or on 2023-11-16
Todays == {1700006400, 1700092800}

\* ------------------------------------------------------------------------
\* Bounds
\* ------------------------------------------------------------------------
\* the number of index_file calls a behaviour holds
MaxIndexings == 3

\* the longest list handed to insert_bulk_word_tuples fills this many
\* statements
MaxStatements == 3

\* the lists handed to insert_bulk_word_tuples are at most this many tuples
\* longer or shorter than a multiple of max_values
MaxRest == 6

\* ------------------------------------------------------------------------
\* State
\* ------------------------------------------------------------------------
VARIABLES
  monitored_file,      \* table monitored_file: rows [id, path, modified]
  word_stem,           \* table word_stem: rows [id, stem]
  file_reverse_index,  \* table file_reverse_index: rows [id, file, stem, offset, word]
  pc,                  \* position of the single server thread
  job,                 \* the index_file call in progress or just finished
  indexings,           \* number of index_file calls so far
  version,             \* path -> the text index_file read on its last call
  request,             \* the request read from the client in this iteration
  ranking,             \* sort_search_results: path -> score of the last request
  sorted,              \* the lines of the response of this iteration
  written,             \* the bytes written to the client in this iteration
  event,               \* the event of this iteration, when it is one that is only logged
  bulk                 \* an insert_bulk_word_tuples call followed statement by statement

vars == <<monitored_file, word_stem, file_reverse_index,
          pc, job, indexings, version, request, ranking, sorted, written, event,
          bulk>>

store == <<monitored_file, word_stem, file_reverse_index>>

\* An index_file call: its arguments (last_modified is the mtime process_file
\* was called with), the text it read (the empty text when read_to_string
\* failed), where it returns to;
\* and, to compare with afterwards, what the store held for the file when
\* the call began: whether the path had a row, the text read the time
\* before, the postings without their ids, and the word_stem table.
NoJob == [file_id |-> 0, path |-> "", last_modified |-> 0, text |-> <<>>,
          read_failed |-> FALSE, ret |-> "",
          known |-> FALSE, old_text |-> <<>>, old_postings |-> {}, old_stems |-> {}]

NoRequest == <<>>

NoRanking == <<>>

NoResponse == <<>>

NoBytes == <<>>

\* insert_bulk_word_tuples: the list it was called with, its locals words
\* and remainder, and the tuples of each statement executed so far
NoBulk == [input |-> <<>>, words |-> <<>>, remainder |-> <<>>, statements |-> <<>>]

NoEvent == [kind |-> "", old |-> "", new |-> ""]

\* The events the loop only logs: Rename(old, new) between two indexed paths,
\* Rescan, and Error
RenamePaths == {"/q/a", "/r/b"}

LoggedEvents ==
  {[kind |-> "Rename", old |-> o, new |-> n] : o \in RenamePaths, n \in RenamePaths}
    \cup {[kind |-> "Rescan", old |-> "", new |-> ""],
          [kind |-> "Error", old |-> "", new |-> ""]}

\* What process_file finds at a path: no file, or a file with some
\* modification time whose text can be read or not.  Other programs change
\* the files at will between two looks, so each look draws the file anew.
\* Times are seconds since the epoch.  The first modification time the
\* program sees at a path is 2023-11-15 23:59:59 UTC; after that a file is at
\* most one second ahead of the modified value stored for its path.
MissingFile == [exists |-> FALSE, mtime |-> 0, readable |-> FALSE, text |-> <<>>]

FirstMtime == 1700092799

StoredModified(path) ==
  IF \E r \in monitored_file : r.path = path
  THEN SetMax({r.modified : r \in {x \in monitored_file : x.path = path}})
  ELSE 0

Mtimes(path) ==
  FirstMtime..(IF StoredModified(path) < FirstMtime THEN FirstMtime
               ELSE StoredModified(path) + 1)

FileStates(path) ==
  {MissingFile}
    \cup [exists : {TRUE}, mtime : Mtimes(path), readable : {TRUE}, text : Texts]
    \cup [exists : {TRUE}, mtime : Mtimes(path), readable : {FALSE}, text : {<<>>}]

\* ------------------------------------------------------------------------
\* Store
\* ------------------------------------------------------------------------
\* rowid of an INTEGER PRIMARY KEY column on insert: one more than the largest
NextId(table) == IF table = {} THEN 1 ELSE SetMax({r.id : r \in table}) + 1

\* select_file: the last row (in rowid order) with this path, or none
select_file(mf, path_str) ==
  LET rows == {r \in mf : r.path = path_str}
  IN  IF rows = {} THEN {}
      ELSE {CHOOSE r \in rows : \A o \in rows : o.id <= r.id}

\* insert_file: INSERT INTO monitored_file (path, modified)
insert_file(mf, path_str, last_modified) ==
  mf \cup {[id |-> NextId(mf), path |-> path_str, modified |-> last_modified]}

\* update_file_mod_time: UPDATE monitored_file SET modified WHERE path
update_file_mod_time(mf, last_modified, path_str) ==
  {IF r.path = path_str THEN [r EXCEPT !.modified = last_modified] ELSE r : r \in mf}

\* A faulty variant of clear_index_for: the DELETE is left out
clear_index_none(fri, file_id) == fri

\* clear_index_for: DELETE FROM file_reverse_index WHERE file = ?
clear_index_for(fri, file_id) == {r \in fri : r.file # file_id}

\* select_all_stems: the HashMap stem -> id; a later row overwrites an earlier
\* one with the same stem
select_all_stems(ws) ==
  [s \in {r.stem : r \in ws} |-> SetMax({r.id : r \in {x \in ws : x.stem = s}})]

\* insert_bulk_stems: one INSERT with a row per element of stems, in order
RECURSIVE insert_bulk_stems(_, _)
insert_bulk_stems(ws, stems) ==
  IF stems = <<>> THEN ws
  ELSE insert_bulk_stems(ws \cup {[id |-> NextId(ws), stem |-> Head(stems)]}, Tail(stems))

\* the driver's parameter limit used by insert_bulk_word_tuples
max_values == 8192

\* one INSERT INTO file_reverse_index with a row per tuple, in order
RECURSIVE InsertTuples(_, _)
InsertTuples(fri, words) ==
  IF words = <<>> THEN fri
  ELSE InsertTuples(fri \cup {[Head(words) EXCEPT !.id = NextId(fri)]}, Tail(words))

\* insert_bulk_word_tuples: statements of at most max_values tuples until the
\* list is used up
RECURSIVE insert_bulk_word_tuples(_, _)
insert_bulk_word_tuples(fri, words) ==
  IF words = <<>> THEN fri
  ELSE IF Len(words) > max_values
       THEN insert_bulk_word_tuples(InsertTuples(fri, SubSeq(words, 1, max_values)),
                                    SubSeq(words, max_values + 1, Len(words)))
       ELSE InsertTuples(fri, words)

\* A faulty variant of KeptWords: the list is never cut
KeptWordsUncut(words) == words

\* insert_bulk_word_tuples, one turn of the loop: words after
\* `if words.len() > max_values { remainder = words.split_off(max_values) }`
KeptWords(words) ==
  IF Len(words) > max_values THEN SubSeq(words, 1, max_values) ELSE words

\* the same turn of the loop: remainder, which starts every turn empty
SplitOff(words) ==
  IF Len(words) > max_values THEN SubSeq(words, max_values + 1, Len(words)) ELSE <<>>

\* ------------------------------------------------------------------------
\* Indexer
\* ------------------------------------------------------------------------
\* file_mod_time: the mtime in seconds, 0 when the metadata cannot be read
file_mod_time(file) == IF file.exists THEN file.mtime ELSE 0

\* fs::read_to_string(path).unwrap_or("")
ReadText(file) == IF file.exists /\ file.readable THEN file.text ELSE <<>>

\* A faulty variant of NewStems: the stems already in the table are not looked up
NewStemsUnchecked(text, all_stems) ==
  LET toks == Tokens(text) IN [i \in DOMAIN toks |-> stem_word(toks[i])]

\* index_file, first pass over the tokens: the stems not yet in all_stems, one
\* entry per occurrence (all_stems is not updated inside the loop)
NewStems(text, all_stems) ==
  LET toks == Tokens(text)
      stems == [i \in DOMAIN toks |-> stem_word(toks[i])]
  IN  SelectSeq(stems, LAMBDA s : s \notin DOMAIN all_stems)

\* A faulty variant of NewIndexTuples: word_count is incremented before it is used
NewIndexTuplesFromOne(text, file_id, all_stems) ==
  LET toks == Tokens(text)
  IN  [i \in DOMAIN toks |->
         [id |-> 0, file |-> file_id, stem |-> all_stems[stem_word(toks[i])],
          offset |-> i, word |-> toks[i]]]

\* index_file, second pass: one tuple per token, offsets counted from 0
NewIndexTuples(text, file_id, all_stems) ==
  LET toks == Tokens(text)
  IN  [i \in DOMAIN toks |->
         [id |-> 0, file |-> file_id, stem |-> all_stems[stem_word(toks[i])],
          offset |-> i - 1, word |-> toks[i]]]

\* the code points of the model's paths
PathText(path) ==
  CASE path = "/q" -> <<47, 113>>
    [] path = "/q/a" -> <<47, 113, 47, 97>>
    [] path = "/q/d" -> <<47, 113, 47, 100>>
    [] path = "/q/d/x" -> <<47, 113, 47, 100, 47, 120>>
    [] path = "/r" -> <<47, 114>>
    [] path = "/r/.git" -> <<47, 114, 47, 46, 103, 105, 116>>
    [] path = "/r/.git/c" -> <<47, 114, 47, 46, 103, 105, 116, 47, 99>>
    [] path = "/r/.gitignore" ->
         <<47, 114, 47, 46, 103, 105, 116, 105, 103, 110, 111, 114, 101>>
    [] path = "/r/.hg" -> <<47, 114, 47, 46, 104, 103>>
    [] path = "/r/.hg/c" -> <<47, 114, 47, 46, 104, 103, 47, 99>>
    [] path = "/r/b" -> <<47, 114, 47, 98>>
    [] path = "/r/c.svg" -> <<47, 114, 47, 99, 46, 115, 118, 103>>
    [] path = "/r/d" -> <<47, 114, 47, 100>>
    [] path = "/r/d/.hgignore" ->
         <<47, 114, 47, 100, 47, 46, 104, 103, 105, 103, 110, 111, 114, 101>>
    [] path = "/r/d/c" -> <<47, 114, 47, 100, 47, 99>>
    [] path = "/r/d/s" -> <<47, 114, 47, 100, 47, 115>>
    [] path = "/r/d/t" -> <<47, 114, 47, 100, 47, 116>>
    [] path = "/r/s" -> <<47, 114, 47, 115>>

\* str::contains
Contains(s, pat) ==
  \E i \in 1..(Len(s) - Len(pat) + 1) : SubSeq(s, i, i + Len(pat) - 1) = pat

\* str::ends_with
EndsWith(s, pat) ==
  Len(s) >= Len(pat) /\ SubSeq(s, Len(s) - Len(pat) + 1, Len(s)) = pat

\* A faulty variant of EventDropped: only the test for ".git" is made
EventDroppedGitOnly(path) == Contains(PathText(path), <<46, 103, 105, 116>>)

\* process_event: events on these paths are dropped
EventDropped(path) ==
  \/ Contains(PathText(path), <<46, 103, 105, 116>>)      \* ".git"
  \/ Contains(PathText(path), <<46, 104, 103>>)           \* ".hg"
  \/ EndsWith(PathText(path), <<46, 115, 118, 103>>)      \* ".svg"

\* the paths events come for: the three indexed files and three paths that
\* process_event drops
EventPaths == PathSet \cup {"/r/.git/c", "/r/.hg/c", "/r/c.svg"}

\* Path::file_name: the last component of a path
file_name(path) ==
  LET text == PathText(path)
      slash == SetMax({i \in DOMAIN text : text[i] = 47})
  IN  SubSeq(text, slash + 1, Len(text))

\* gitignore::File::is_excluded: what the patterns of an ignore file say of a
\* file below the directory of the ignore file.  /r/.gitignore holds the
\* patterns ".gitignore" and "s", /r/d/.hgignore holds ".hgignore" and "t".
is_excluded(ignore, path) ==
  CASE ignore = "/r/.gitignore" -> path \in {"/r/.gitignore", "/r/s", "/r/d/s"}
    [] ignore = "/r/d/.hgignore" -> path \in {"/r/d/.hgignore", "/r/d/t"}
    [] OTHER -> FALSE

\* A faulty variant of Ignores: the ignore files of the ancestors are dropped
IgnoresOfDirectoryOnly(path, ignored) ==
  (IF exists(path \o "/.gitignore") THEN <<path \o "/.gitignore">> ELSE <<>>)
    \o (IF exists(path \o "/.hgignore") THEN <<path \o "/.hgignore">> ELSE <<>>)

\* process_folder: the ignore files in effect in a directory are those handed
\* down by the caller, then the directory's own .gitignore and .hgignore
Ignores(path, ignored) ==
  ignored
    \o (IF exists(path \o "/.gitignore") THEN <<path \o "/.gitignore">> ELSE <<>>)
    \o (IF exists(path \o "/.hgignore") THEN <<path \o "/.hgignore">> ELSE <<>>)

\* process_folder: the files it hands to process_file
RECURSIVE process_folder(_, _, _)
process_folder(path, recursive, ignored) ==
  IF ~is_dir(path) \/ file_name(path) \in {<<46, 103, 105, 116>>, <<46, 104, 103>>}
  THEN {}
  ELSE LET ignores == Ignores(path, ignored)
       IN  UNION {IF recursive /\ is_dir(entry)
                  THEN process_folder(entry, recursive, ignores)
                  ELSE IF is_dir(entry) THEN {}
                  ELSE IF \E i \in DOMAIN ignores : is_excluded(ignores[i], entry)
                  THEN {}
                  ELSE {entry} : entry \in read_dir(path)}

\* process_folder, lines 315-334: the ignore files it parses with
\* gitignore::File::new, those handed down by the caller parsed once more
RECURSIVE ParsedIgnores(_, _, _)
ParsedIgnores(path, recursive, ignored) ==
  IF ~is_dir(path) \/ file_name(path) \in {<<46, 103, 105, 116>>, <<46, 104, 103>>}
  THEN {}
  ELSE LET ignores == Ignores(path, ignored)
       IN  Range(ignores)
             \cup UNION {IF recursive /\ is_dir(entry)
                         THEN ParsedIgnores(entry, recursive, ignores)
                         ELSE {} : entry \in read_dir(path)}

\* main: the ignore files parsed during the scan of the configured folders
ScanIgnores ==
  UNION {ParsedIgnores(Folders[i].name, Folders[i].recurse, <<>>) : i \in DOMAIN Folders}

\* main: process_folder for every configured folder
ScanFiles ==
  UNION {process_folder(Folders[i].name, Folders[i].recurse, <<>>) : i \in DOMAIN Folders}

\* A faulty variant of Decision: the lookup result is ignored, every path is new
DecisionAlwaysNew(mf, path_str, last_modified) == "new"

\* A faulty variant of Decision: any difference of the two times makes the
\* row stale
DecisionOnAnyChange(mf, path_str, last_modified) ==
  LET mod_time == select_file(mf, path_str)
  IN  IF mod_time = {} THEN "new"
      ELSE IF (CHOOSE r \in mod_time : TRUE).modified # last_modified THEN "stale"
      ELSE "fresh"

\* A faulty variant of Decision: a row as new as the file is stale as well
DecisionStaleWhenEqual(mf, path_str, last_modified) ==
  LET mod_time == select_file(mf, path_str)
  IN  IF mod_time = {} THEN "new"
      ELSE IF (CHOOSE r \in mod_time : TRUE).modified <= last_modified THEN "stale"
      ELSE "fresh"

\* process_file: what the lookup of the path decides
\*   "new"   - no row: insert_file, then index_file with the new id
\*   "stale" - a row with modified < last_modified: update, then index_file
\*   "fresh" - a row with modified >= last_modified: nothing
Decision(mf, path_str, last_modified) ==
  LET mod_time == select_file(mf, path_str)
  IN  IF mod_time = {} THEN "new"
      ELSE IF (CHOOSE r \in mod_time : TRUE).modified < last_modified THEN "stale"
      ELSE "fresh"

\* process_file up to the call of index_file: the table and the id passed on
ProcessFileRows(mf, path_str, last_modified) ==
  IF Decision(mf, path_str, last_modified) = "new"
  THEN insert_file(mf, path_str, last_modified)
  ELSE update_file_mod_time(mf, last_modified, path_str)

FileIdOf(mf, path_str) == (CHOOSE r \in select_file(mf, path_str) : TRUE).id

\* index_file, "Delete any existing index": a positive id has its postings
\* cleared; id 0 gets a row of its own
IndexStartRows(mf, path, file_id, last_modified) ==
  IF file_id > 0 THEN mf ELSE insert_file(mf, path, last_modified)

IndexStartId(mf, path, file_id, last_modified) ==
  IF file_id > 0 THEN file_id
  ELSE FileIdOf(insert_file(mf, path, last_modified), path)

\* A faulty variant of IndexStartPostings: nothing is deleted
IndexStartPostingsKept(fri, file_id) == fri

IndexStartPostings(fri, file_id) ==
  IF file_id > 0 THEN clear_index_for(fri, file_id) ELSE fri

\* ------------------------------------------------------------------------
\* Initial state: empty tables (enforce_data_model on a new database), no
\* watched file yet, the thread about to scan the configured folders
\* ------------------------------------------------------------------------
Init ==
  /\ monitored_file = {}
  /\ word_stem = {}
  /\ file_reverse_index = {}
  /\ pc = "scan"
  /\ job = NoJob
  /\ indexings = 0
  /\ version = [p \in FileSet |-> <<>>]
  /\ request = NoRequest
  /\ ranking = NoRanking
  /\ sorted = NoResponse
  /\ written = NoBytes
  /\ event = NoEvent
  /\ bulk = NoBulk

\* process_file as both callers use it, up to the end of "Delete any existing
\* index" in index_file: the row is inserted or updated, the text is read and
\* the old postings of the file are deleted
ProcessFileIndex(p, file, ret) ==
  /\ Decision(monitored_file, p, file_mod_time(file)) \in {"new", "stale"}
  /\ indexings < MaxIndexings
  /\ indexings' = indexings + 1
  /\ LET last_modified == file_mod_time(file)
         rows == ProcessFileRows(monitored_file, p, last_modified)
         id == FileIdOf(rows, p)
     IN  /\ monitored_file' = IndexStartRows(rows, p, id, last_modified)
         /\ file_reverse_index' = IndexStartPostings(file_reverse_index, id)
         /\ job' = [file_id |-> IndexStartId(rows, p, id, last_modified),
                    path |-> p, last_modified |-> last_modified,
                    text |-> ReadText(file),
                    read_failed |-> ~(file.exists /\ file.readable), ret |-> ret,
                    known |-> select_file(monitored_file, p) # {},
                    old_text |-> version[p],
                    old_postings |-> {<<t.file, t.stem, t.offset, t.word>> :
                                        t \in {u \in file_reverse_index : u.file = id}},
                    old_stems |-> word_stem]
  /\ version' = [version EXCEPT ![p] = ReadText(file)]
  /\ pc' = "index_stems"
  /\ UNCHANGED <<word_stem, request, ranking, sorted, written, event, bulk>>

\* ------------------------------------------------------------------------
\* Start-up: process_folder for every configured folder.  The entries come
\* in any order, and a path can come up more than once (folders may be
\* listed twice).
\* ------------------------------------------------------------------------
\* process_folder -> process_file with nothing to do
ScanFresh(p, file) ==
  /\ pc = "scan"
  /\ file.exists
  /\ Decision(monitored_file, p, file_mod_time(file)) = "fresh"
  /\ UNCHANGED vars

\* process_folder -> process_file -> index_file
ScanIndex(p, file) ==
  /\ pc = "scan"
  /\ file.exists
  /\ ProcessFileIndex(p, file, "scan")

\* process_folder, gitignore::File::new(..).unwrap() on an ignore file whose
\* patterns cannot be parsed: new returns Err, and the unwrap panics on the
\* only thread, which ends the process
ScanIgnoreUnparsable(ignore) ==
  /\ pc = "scan"
  /\ pc' = "scan_panic"
  /\ UNCHANGED <<store, job, indexings, version, request, ranking, sorted, written,
                 event, bulk>>

\* all folders are scanned: the listener is registered and the loop starts
ScanDone ==
  /\ pc = "scan"
  /\ pc' = "recv"
  /\ UNCHANGED <<store, job, indexings, version, request, ranking, sorted, written,
                 event, bulk>>

\* ------------------------------------------------------------------------
\* Server loop, first half: rx.recv_timeout
\* ------------------------------------------------------------------------
\* no event within 100 ms, or the channel is disconnected
RecvTimeout ==
  /\ pc = "recv"
  /\ pc' = "poll"
  /\ UNCHANGED <<store, job, indexings, version, request, ranking, sorted, written,
                 event, bulk>>

\* A faulty variant of LoggedEventRows: a Rename moves the row of old to new
LoggedEventRowsRenamed(mf, ev) ==
  IF ev.kind = "Rename"
  THEN {IF r.path = ev.old THEN [r EXCEPT !.path = ev.new] ELSE r : r \in mf}
  ELSE mf

\* Error, Rename or Rescan: the monitored_file table after the arm of the
\* match, which is a debug! line and executes no statement
LoggedEventRows(mf, ev) == mf

\* Error, Rename or Rescan is taken from rx and logged
LoggedEvent(ev) ==
  /\ pc = "recv"
  /\ (ev.kind = "Rename" => ev.old # ev.new)
  /\ pc' = "logged"
  /\ event' = ev
  /\ monitored_file' = LoggedEventRows(monitored_file, ev)
  /\ UNCHANGED <<word_stem, file_reverse_index, job, indexings, version, request,
                 ranking, sorted, written, bulk>>

\* the match is over: on to the poll
LoggedReturn ==
  /\ pc = "logged"
  /\ pc' = "poll"
  /\ event' = NoEvent
  /\ UNCHANGED <<store, job, indexings, version, request, ranking, sorted, written, bulk>>

\* Chmod, Create, NoticeRemove, NoticeWrite, Write or Remove on a dropped path
ProcessEventDropped(p, file) ==
  /\ pc = "recv"
  /\ EventDropped(p)
  /\ pc' = "dropped"
  /\ UNCHANGED <<store, job, indexings, version, request, ranking, sorted, written,
                 event, bulk>>

\* watcher.watch(path).unwrap() on a path that does not exist: the watch
\* cannot be added and the unwrap ends the process
ProcessEventAbort(p, file) ==
  /\ pc = "recv"
  /\ ~EventDropped(p)
  /\ ~file.exists
  /\ pc' = "aborted"
  /\ UNCHANGED <<store, job, indexings, version, request, ranking, sorted, written,
                 event, bulk>>

\* process_event -> process_file with nothing to do: the stored mtime is not
\* older than the file's
ProcessEventFresh(p, file) ==
  /\ pc = "recv"
  /\ ~EventDropped(p)
  /\ Decision(monitored_file, p, file_mod_time(file)) = "fresh"
  /\ pc' = "poll"
  /\ UNCHANGED <<store, job, indexings, version, request, ranking, sorted, written,
                 event, bulk>>

\* process_event -> process_file -> index_file
ProcessEventIndex(p, file) ==
  /\ pc = "recv"
  /\ ~EventDropped(p)
  /\ ProcessFileIndex(p, file, "poll")

\* process_event as a whole, for one event and what file_mod_time and
\* read_to_string find at its path
process_event(p, file) ==
  \/ ProcessEventDropped(p, file)
  \/ ProcessEventAbort(p, file)
  \/ ProcessEventFresh(p, file)
  \/ ProcessEventIndex(p, file)

\* the return of line 277: back in the loop, on to the poll
ProcessEventReturn ==
  /\ pc = "dropped"
  /\ pc' = "poll"
  /\ UNCHANGED <<store, job, indexings, version, request, ranking, sorted, written,
                 event, bulk>>

\* index_file, first pass and insert_bulk_stems
IndexStems ==
  /\ pc = "index_stems"
  /\ word_stem' = insert_bulk_stems(word_stem,
                                    NewStems(job.text, select_all_stems(word_stem)))
  /\ pc' = "index_tuples"
  /\ UNCHANGED <<monitored_file, file_reverse_index, job, indexings, version,
                 request, ranking, sorted, written, event, bulk>>

\* index_file, second pass and insert_bulk_word_tuples
IndexTuples ==
  /\ pc = "index_tuples"
  /\ file_reverse_index' =
       insert_bulk_word_tuples(file_reverse_index,
                               NewIndexTuples(job.text, job.file_id,
                                              select_all_stems(word_stem)))
  /\ pc' = "indexed"
  /\ UNCHANGED <<monitored_file, word_stem, job, indexings, version,
                 request, ranking, sorted, written, event, bulk>>

\* insert_bulk_stems: the INSERT fails (database locked, disk full, ...);
\* the statement changes nothing and the unwrap ends the process
IndexStemsError ==
  /\ pc = "index_stems"
  /\ NewStems(job.text, select_all_stems(word_stem)) # <<>>
  /\ pc' = "index_panic"
  /\ UNCHANGED <<store, job, indexings, version, request, ranking, sorted, written,
                 event, bulk>>

\* insert_bulk_word_tuples: the INSERT fails; the statement changes nothing
\* and the panic! of line 661 ends the process
IndexTuplesError ==
  /\ pc = "index_tuples"
  /\ NewIndexTuples(job.text, job.file_id, select_all_stems(word_stem)) # <<>>
  /\ pc' = "index_panic"
  /\ UNCHANGED <<store, job, indexings, version, request, ranking, sorted, written,
                 event, bulk>>

\* index_file, process_file and process_event return to the loop
IndexReturn ==
  /\ pc = "indexed"
  /\ pc' = job.ret
  /\ job' = NoJob
  /\ UNCHANGED <<store, indexings, version, request, ranking, sorted, written, event, bulk>>

\* ------------------------------------------------------------------------
\* Query engine
\* ------------------------------------------------------------------------
\* respond_to_search: the id of each query word's stem, 0 for an unknown stem
QueryIds(query, all_stems) ==
  LET toks == Tokens(query)
  IN  [i \in DOMAIN toks |->
         IF stem_word(toks[i]) \in DOMAIN all_stems
         THEN all_stems[stem_word(toks[i])] ELSE 0]

\* respond_to_search: stem_ids, the non-zero ids without repetition, in order
RECURSIVE DedupIds(_, _)
DedupIds(ids, acc) ==
  IF ids = <<>> THEN acc
  ELSE IF Head(ids) \notin Range(acc) /\ Head(ids) > 0
       THEN DedupIds(Tail(ids), Append(acc, Head(ids)))
       ELSE DedupIds(Tail(ids), acc)

StemIds(query, all_stems) == DedupIds(QueryIds(query, all_stems), <<>>)

\* the sort key of ORDER BY f.path, i.stem, i.offset (then row order)
RowKey(r) == <<PathRank(r.path), r.stem, r.offset, r.id>>

RECURSIVE SortRows(_)
SortRows(S) ==
  IF S = {} THEN <<>>
  ELSE LET m == CHOOSE x \in S : \A y \in S \ {x} : LexLess(RowKey(x), RowKey(y))
       IN  <<m>> \o SortRows(S \ {m})

\* search_index: SELECT f.path, i.word, i.stem, i.offset FROM
\* file_reverse_index i JOIN monitored_file f ON f.id = i.file
\* WHERE i.stem IN (ids) ORDER BY f.path, i.stem, i.offset
search_index(mf, fri, ids) ==
  LET joined == {[path |-> f.path, word |-> i.word, stem |-> i.stem,
                  offset |-> i.offset, id |-> i.id] :
                   <<i, f>> \in {x \in fri \X mf : x[1].file = x[2].id
                                                   /\ x[1].stem \in Range(ids)}}
      rows == SortRows(joined)
  IN  [k \in DOMAIN rows |-> [path |-> rows[k].path, word |-> rows[k].word,
                              stem |-> rows[k].stem, offset |-> rows[k].offset]]

\* HashMap::insert
MapInsert(m, k, v) == (k :> v) @@ m

EmptyMap == <<>>

\* A faulty variant of AllFound: the check of stem_ids is left out
AllFoundAlways(files, stem_ids) == TRUE

\* collate_search: "all_found", every id of stem_ids is a key of the file's map
AllFound(files, stem_ids) == \A i \in DOMAIN stem_ids : stem_ids[i] \in DOMAIN files

\* collate_search: the body of search.iter().for_each for one row
CollateStep(st, sr, stem_ids) ==
  LET last_file1 == IF st.last_file = "" THEN sr.path ELSE st.last_file
      last_stem1 == IF st.last_stem = 0 THEN sr.stem ELSE st.last_stem
      stem_changed == sr.stem # last_stem1 \/ sr.path # last_file1
      by_file2 == IF stem_changed THEN MapInsert(st.by_file, last_stem1, st.by_stem)
                  ELSE st.by_file
      by_stem2 == IF stem_changed THEN <<>> ELSE st.by_stem
      last_stem2 == IF stem_changed THEN sr.stem ELSE last_stem1
      file_changed == sr.path # last_file1
      result2 == IF file_changed /\ AllFound(by_file2, stem_ids)
                 THEN MapInsert(st.result, last_file1, by_file2)
                 ELSE st.result
      by_file3 == IF file_changed THEN EmptyMap ELSE by_file2
      last_file2 == IF file_changed THEN sr.path ELSE last_file1
  IN  [result |-> result2, by_stem |-> Append(by_stem2, sr), by_file |-> by_file3,
       last_stem |-> last_stem2, last_file |-> last_file2]

RECURSIVE CollateFrom(_, _, _)
CollateFrom(st, search, stem_ids) ==
  IF search = <<>> THEN st
  ELSE CollateFrom(CollateStep(st, Head(search), stem_ids), Tail(search), stem_ids)

\* collate_search: path -> (stem id -> the rows of that stem in offset order)
collate_search(search, stem_ids) ==
  CollateFrom([result |-> EmptyMap, by_stem |-> <<>>, by_file |-> EmptyMap,
               last_stem |-> 0, last_file |-> ""], search, stem_ids).result

\* sort_search_results: what one comparison of the merge adds to the score
DiffBonus(diff) == IF diff < 2 THEN 3 ELSE IF diff < 7 THEN 2 ELSE IF diff <= 20 THEN 1 ELSE 0

\* sort_search_results: the while loop over two lists of rows
RECURSIVE Merge(_, _, _, _)
Merge(offsets, compare, oi, ci) ==
  IF ~(oi <= Len(offsets) /\ ci <= Len(compare)) THEN 0
  ELSE IF offsets[oi].offset > compare[ci].offset
       THEN Merge(offsets, compare, oi, ci + 1)
       ELSE DiffBonus(compare[ci].offset - offsets[oi].offset)
            + Merge(offsets, compare, oi + 1, ci)

\* sort_search_results: "for s in 1..stem_keys.len() - 1" with 0-based s pairs
\* stem_keys[s] with stem_keys[s + 1]; stem_keys here is 1-based
PairIndexes(stem_keys) == 2..(Len(stem_keys) - 1)

RECURSIVE SumBonus(_, _, _)
SumBonus(stems, stem_keys, S) ==
  IF S = {} THEN 0
  ELSE LET s == CHOOSE x \in S : TRUE
       IN  Merge(stems[stem_keys[s]], stems[stem_keys[s + 1]], 1, 1)
           + SumBonus(stems, stem_keys, S \ {s})

\* the score before the literal bonus, for one iteration order of the keys
BaseScore(stems, stem_keys) == 1 + SumBonus(stems, stem_keys, PairIndexes(stem_keys))

\* the query words: alpha_only.split_whitespace().collect()
QueryWords(query) == Range(SplitWhitespace(ReplacePunc(query)))

\* the number of rows of the file whose surface word is a query word; each
\* multiplies the score by 1.1
LiteralCount(stems, query) ==
  LET hits(k) == Cardinality({i \in DOMAIN stems[k] : stems[k][i].word \in QueryWords(query)})
      RECURSIVE Sum(_)
      Sum(K) == IF K = {} THEN 0
                ELSE LET k == CHOOSE x \in K : TRUE IN hits(k) + Sum(K \ {k})
  IN  Sum(DOMAIN stems)

\* A score is base * 1.1^lit, kept as the pair; the f32 rounding of the
\* product is not modelled.
ScoreGreater(a, b) ==
  a.base * Pow(11, a.lit) * Pow(10, b.lit) > b.base * Pow(11, b.lit) * Pow(10, a.lit)

\* sort_search_results: the scores a file can get; stems.keys() iterates a
\* HashMap, in an order the program does not control
Scores(stems, query) ==
  {[base |-> BaseScore(stems, stem_keys), lit |-> LiteralCount(stems, query)] :
     stem_keys \in Perms(DOMAIN stems)}

Rankings(search, query) ==
  {rk \in [DOMAIN search -> UNION {Scores(search[k], query) : k \in DOMAIN search}] :
     \A k \in DOMAIN search : rk[k] \in Scores(search[k], query)}

\* A faulty variant of InsertByScore: the keys stay in the order of the map
InsertAtEnd(done, k, rk) == Append(done, k)

\* result.sort_by: a stable sort, ascending by score
RECURSIVE InsertByScore(_, _, _)
InsertByScore(done, k, rk) ==
  IF done = <<>> THEN <<k>>
  ELSE IF ScoreGreater(rk[Head(done)], rk[k]) THEN <<k>> \o done
  ELSE <<Head(done)>> \o InsertByScore(Tail(done), k, rk)

RECURSIVE SortByScore(_, _, _)
SortByScore(done, rest, rk) ==
  IF rest = <<>> THEN done
  ELSE SortByScore(InsertByScore(done, Head(rest), rk), Tail(rest), rk)

\* sort_search_results, from ranking.keys() on: the keys of the HashMap in
\* the order the map yields them, sorted by score, then the empty string
sort_search_results(keys, rk) == Append(SortByScore(<<>>, keys, rk), "")

\* respond_to_search down to the call of sort_search_results
Serps(query) ==
  LET all_stems == select_all_stems(word_stem)
  IN  collate_search(search_index(monitored_file, file_reverse_index,
                                  QueryIds(query, all_stems)),
                     StemIds(query, all_stems))

\* str::from_utf8 on sequences of one and two bytes (all that the model's
\* buffers hold): whether the bytes are UTF-8, and the text they encode
RECURSIVE Utf8Valid(_)
Utf8Valid(bytes) ==
  IF bytes = <<>> THEN TRUE
  ELSE IF bytes[1] < 128 THEN Utf8Valid(Tail(bytes))
  ELSE IF bytes[1] \in 194..223 /\ Len(bytes) >= 2 /\ bytes[2] \in 128..191
  THEN Utf8Valid(Tail(Tail(bytes)))
  ELSE FALSE

RECURSIVE Utf8Text(_)
Utf8Text(bytes) ==
  IF bytes = <<>> THEN <<>>
  ELSE IF bytes[1] < 128 THEN <<bytes[1]>> \o Utf8Text(Tail(bytes))
  ELSE <<(bytes[1] - 192) * 64 + (bytes[2] - 128)>> \o Utf8Text(Tail(Tail(bytes)))

from_utf8(buffer) ==
  IF Utf8Valid(buffer) THEN [ok |-> TRUE, text |-> Utf8Text(buffer)]
  ELSE [ok |-> FALSE, text |-> <<>>]

\* str::as_bytes: the UTF-8 encoding, for code points below U+0800
RECURSIVE as_bytes(_)
as_bytes(text) ==
  IF text = <<>> THEN <<>>
  ELSE IF text[1] < 128 THEN <<text[1]>> \o as_bytes(Tail(text))
  ELSE <<192 + (text[1] \div 64), 128 + (text[1] % 64)>> \o as_bytes(Tail(text))

\* str::starts_with
StartsWith(s, pat) == Len(s) >= Len(pat) /\ SubSeq(s, 1, Len(pat)) = pat

\* handle_queries: the handler a request goes to
Dispatch(query) ==
  IF StartsWith(query, <<64, 111, 110>>) THEN "today"          \* "@on"
  ELSE IF StartsWith(query, <<64, 97, 103, 111>>) THEN "ago"   \* "@ago"
  ELSE "search"

\* str::trim_matches with one character
RECURSIVE trim_matches(_, _)
trim_matches(s, c) ==
  IF s # <<>> /\ Head(s) = c THEN trim_matches(Tail(s), c)
  ELSE IF s # <<>> /\ s[Len(s)] = c THEN trim_matches(SubSeq(s, 1, Len(s) - 1), c)
  ELSE s

\* str::replace with the empty string as the replacement
RECURSIVE replace(_, _)
replace(s, pat) ==
  IF Len(s) < Len(pat) THEN s
  ELSE IF SubSeq(s, 1, Len(pat)) = pat THEN replace(SubSeq(s, Len(pat) + 1, Len(s)), pat)
  ELSE <<Head(s)>> \o replace(Tail(s), pat)

\* days from 1970-01-01 to a date of the proleptic Gregorian calendar
DaysFromCivil(year, month, day) ==
  LET y == IF month <= 2 THEN year - 1 ELSE year
      era == y \div 400
      yoe == y - era * 400
      doy == (153 * (IF month > 2 THEN month - 3 ELSE month + 9) + 2) \div 5 + day - 1
      doe == yoe * 365 + yoe \div 4 - yoe \div 100 + doy
  IN  era * 146097 + doe - 719468

DaysInMonth(year, month) ==
  IF month = 2
  THEN (IF year % 4 = 0 /\ (year % 100 # 0 \/ year % 400 = 0) THEN 29 ELSE 28)
  ELSE IF month \in {4, 6, 9, 11} THEN 30 ELSE 31

\* NaiveDateTime::parse_from_str(query, "%F %T") and timestamp(), for a query
\* that ends in the " 00:00:00" the handler appends: white space before the
\* year is skipped, then comes a date of the form YYYY-MM-DD
parse_from_str(query) ==
  LET t == TrimStart(query)
      N2(i) == (t[i] - 48) * 10 + (t[i + 1] - 48)
      year == N2(1) * 100 + N2(3)
      month == N2(6)
      day == N2(9)
  IN  IF /\ Len(t) = 19
         /\ \A i \in {1, 2, 3, 4, 6, 7, 9, 10} : t[i] \in 48..57
         /\ t[5] = 45 /\ t[8] = 45
         /\ SubSeq(t, 11, 19) = <<32, 48, 48, 58, 48, 48, 58, 48, 48>>
         /\ month \in 1..12
         /\ day \in 1..DaysInMonth(year, month)
      THEN [ok |-> TRUE, timestamp |-> DaysFromCivil(year, month, day) * 86400]
      ELSE [ok |-> FALSE, timestamp |-> 0]

\* respond_to_today and respond_to_ago: day_start, from the request or, when
\* the date does not parse, from the clock
DayStart(raw_query, prefix, today) ==
  LET query_string == replace(replace(trim_matches(raw_query, 0), prefix), <<10>>)
      query == query_string \o <<32, 48, 48, 58, 48, 48, 58, 48, 48>>
      date == parse_from_str(query)
  IN  IF date.ok THEN date.timestamp ELSE today

\* ORDER BY modified; rows of equal modified come in the order of the table
RECURSIVE OrderByModified(_)
OrderByModified(rows) ==
  IF rows = {} THEN <<>>
  ELSE LET first == CHOOSE r \in rows :
                      \A x \in rows : <<r.modified, r.id>> = <<x.modified, x.id>>
                                       \/ r.modified < x.modified
                                       \/ (r.modified = x.modified /\ r.id < x.id)
       IN  <<first.path>> \o OrderByModified(rows \ {first})

\* A faulty variant of files_modified: the empty string is not pushed
files_modified_no_push(mf, day_start) ==
  OrderByModified({r \in mf : r.modified >= day_start /\ r.modified <= day_start + 86400})

\* respond_to_today and respond_to_ago: the SELECT, and files with the empty
\* string pushed
files_modified(mf, day_start) ==
  Append(OrderByModified({r \in mf : r.modified >= day_start
                                     /\ r.modified <= day_start + 86400}), "")

\* [String]::join("\n") over the paths of a response
RECURSIVE join(_)
join(lines) ==
  IF lines = <<>> THEN <<>>
  ELSE IF Len(lines) = 1 THEN (IF lines[1] = "" THEN <<>> ELSE PathText(lines[1]))
  ELSE (IF lines[1] = "" THEN <<>> ELSE PathText(lines[1])) \o <<10>> \o join(Tail(lines))

\* ------------------------------------------------------------------------
\* Server loop, second half: server_poll.poll and handle_queries
\* ------------------------------------------------------------------------
\* A faulty variant of CanHandleQueries: clients are also served between the steps of
\* index_file
CanHandleQueriesWhileIndexing == pc \in {"poll", "index_stems", "index_tuples"}

\* handle_queries runs after the event of this iteration has been handled
CanHandleQueries == pc = "poll"

\* no client is ready within 100 ms: events is empty
PollTimeout ==
  /\ CanHandleQueries
  /\ pc' = "recv"
  /\ UNCHANGED <<store, job, indexings, version, request, ranking, sorted, written,
                 event, bulk>>

\* server.accept() fails: WouldBlock breaks the loop over the events, any
\* other error is logged and handle_queries returns
AcceptError ==
  /\ CanHandleQueries
  /\ pc' = "recv"
  /\ UNCHANGED <<store, job, indexings, version, request, ranking, sorted, written,
                 event, bulk>>

\* server.accept() yields a client, which is registered with the poll
Accept ==
  /\ CanHandleQueries
  /\ pc' = "accepted"
  /\ UNCHANGED <<store, job, indexings, version, request, ranking, sorted, written,
                 event, bulk>>

\* client.read right after the accept, on a request that has not arrived
\* yet: WouldBlock, and the break drops the client and closes the connection
ReadWouldBlock ==
  /\ pc = "accepted"
  /\ pc' = "unanswered"
  /\ UNCHANGED <<store, job, indexings, version, request, ranking, sorted, written,
                 event, bulk>>

\* the break of line 918 ends handle_queries
BreakReturn ==
  /\ pc = "unanswered"
  /\ pc' = "recv"
  /\ UNCHANGED <<store, job, indexings, version, request, ranking, sorted, written,
                 event, bulk>>

\* client.read fails otherwise: Interrupted and any other error drop the
\* client and go on to the next event
ReadError ==
  /\ pc = "accepted"
  /\ pc' = "poll"
  /\ UNCHANGED <<store, job, indexings, version, request, ranking, sorted, written,
                 event, bulk>>

\* str::from_utf8(&buffer).unwrap() on a request that is not UTF-8
ReadNotUtf8(buffer) ==
  /\ pc = "accepted"
  /\ ~from_utf8(buffer).ok
  /\ pc' = "client_panic"
  /\ UNCHANGED <<store, job, indexings, version, request, ranking, sorted, written,
                 event, bulk>>

\* client.write(..).unwrap() on a connection the client has closed or reset
WriteError(buffer) ==
  /\ pc = "accepted"
  /\ from_utf8(buffer).ok
  /\ pc' = "client_panic"
  /\ UNCHANGED <<store, job, indexings, version, request, ranking, sorted, written,
                 event, bulk>>

\* a request that starts with "@on" is read and answered
RespondToToday(buffer, today) ==
  /\ pc = "accepted"
  /\ from_utf8(buffer).ok
  /\ Dispatch(from_utf8(buffer).text) = "today"
  /\ request' = from_utf8(buffer).text
  /\ ranking' = NoRanking
  /\ sorted' = files_modified(monitored_file,
                              DayStart(from_utf8(buffer).text, <<64, 111, 110>>, today))
  /\ written' = as_bytes(join(sorted'))
  /\ pc' = "responded_date"
  /\ UNCHANGED <<store, job, indexings, version, event, bulk>>

\* a request that starts with "@ago" is read and answered
RespondToAgo(buffer, today) ==
  /\ pc = "accepted"
  /\ from_utf8(buffer).ok
  /\ Dispatch(from_utf8(buffer).text) = "ago"
  /\ request' = from_utf8(buffer).text
  /\ ranking' = NoRanking
  /\ sorted' = files_modified(monitored_file,
                              DayStart(from_utf8(buffer).text, <<64, 97, 103, 111>>, today))
  /\ written' = as_bytes(join(sorted'))
  /\ pc' = "responded_date"
  /\ UNCHANGED <<store, job, indexings, version, event, bulk>>

\* A faulty variant of SearchWordStem: the stems the request brings are
\* stored, as index_file stores those of a file
SearchWordStemInserted(ws, query) ==
  insert_bulk_stems(ws, NewStems(query, select_all_stems(ws)))

\* respond_to_search: the word_stem table after the call.  The stems of the
\* request are collected in new_stems, with id 0 for those the table does not
\* hold, and go to search_index only; nothing is inserted.
SearchWordStem(ws, query) == ws

\* a free-text request is read and answered
RespondToSearch(buffer) ==
  /\ pc = "accepted"
  /\ from_utf8(buffer).ok
  /\ Dispatch(from_utf8(buffer).text) = "search"
  /\ LET query == from_utf8(buffer).text
     IN  /\ request' = query
         /\ word_stem' = SearchWordStem(word_stem, query)
         /\ \E rk \in Rankings(Serps(query), query) :
              \E keys \in Perms(DOMAIN rk) :
                /\ ranking' = rk
                /\ sorted' = sort_search_results(keys, rk)
  /\ written' = as_bytes(join(sorted'))
  /\ pc' = "responded"
  /\ UNCHANGED <<monitored_file, file_reverse_index, job, indexings, version, event, bulk>>

\* the client is dropped at the end of the handler; the loop over the events
\* goes on
CloseClient ==
  /\ pc \in {"responded", "responded_date"}
  /\ pc' = "poll"
  /\ request' = NoRequest
  /\ ranking' = NoRanking
  /\ sorted' = NoResponse
  /\ written' = NoBytes
  /\ UNCHANGED <<store, job, indexings, version, event, bulk>>

Next ==
  \/ \E p \in ScanFiles : \E file \in FileStates(p) : ScanFresh(p, file)
  \/ \E p \in ScanFiles : \E file \in FileStates(p) : ScanIndex(p, file)
  \/ \E ignore \in ScanIgnores : ScanIgnoreUnparsable(ignore)
  \/ ScanDone
  \/ RecvTimeout
  \/ \E ev \in LoggedEvents : LoggedEvent(ev)
  \/ LoggedReturn
  \/ \E p \in EventPaths : \E file \in FileStates(p) : ProcessEventDropped(p, file)
  \/ \E p \in EventPaths : \E file \in FileStates(p) : ProcessEventAbort(p, file)
  \/ \E p \in EventPaths : \E file \in FileStates(p) : ProcessEventFresh(p, file)
  \/ \E p \in EventPaths : \E file \in FileStates(p) : ProcessEventIndex(p, file)
  \/ ProcessEventReturn
  \/ IndexStems
  \/ IndexTuples
  \/ IndexStemsError
  \/ IndexTuplesError
  \/ IndexReturn
  \/ PollTimeout
  \/ AcceptError
  \/ Accept
  \/ ReadWouldBlock
  \/ BreakReturn
  \/ ReadError
  \/ \E buffer \in Buffers : ReadNotUtf8(buffer)
  \/ \E buffer \in Buffers : WriteError(buffer)
  \/ \E buffer \in Buffers : \E today \in Todays : RespondToToday(buffer, today)
  \/ \E buffer \in Buffers : \E today \in Todays : RespondToAgo(buffer, today)
  \/ \E buffer \in Buffers : RespondToSearch(buffer)
  \/ CloseClient

Spec == Init /\ [][Next]_vars

\* ------------------------------------------------------------------------
\* The process over several runs: after a panic the program is started
\* again on the same database.  Every statement was committed on its own
\* (there is no transaction), so main finds the tables as the statement
\* before the panic left them, and scans the configured folders anew.
\* ------------------------------------------------------------------------
Restart ==
  /\ pc \in {"index_panic", "scan_panic", "client_panic", "aborted"}
  /\ pc' = "scan"
  /\ job' = NoJob
  /\ request' = NoRequest
  /\ ranking' = NoRanking
  /\ sorted' = NoResponse
  /\ written' = NoBytes
  /\ UNCHANGED <<store, indexings, version, event, bulk>>

NextWithRestart == Next \/ Restart

\* ------------------------------------------------------------------------
\* insert_bulk_word_tuples on its own, one statement at a time, for lists of
\* the lengths around the multiples of max_values
\* ------------------------------------------------------------------------
BulkLengths ==
  {n \in 0..(MaxStatements * max_values + MaxRest) :
     n % max_values <= MaxRest \/ n % max_values >= max_values - MaxRest}

\* new_index_tuples as index_file builds it for a file of n tokens
BulkWords(n) ==
  [i \in 1..n |-> [id |-> 0, file |-> 1, stem |-> 1, offset |-> i - 1, word |-> <<119>>]]

InitBulk ==
  /\ monitored_file = {}
  /\ word_stem = {}
  /\ file_reverse_index = {}
  /\ pc = "bulk"
  /\ job = NoJob
  /\ indexings = 0
  /\ version = [p \in FileSet |-> <<>>]
  /\ request = NoRequest
  /\ ranking = NoRanking
  /\ sorted = NoResponse
  /\ written = NoBytes
  /\ event = NoEvent
  /\ \E n \in BulkLengths :
       bulk = [input |-> BulkWords(n), words |-> BulkWords(n), remainder |-> <<>>,
               statements |-> <<>>]

\* `if words.is_empty() { return; }`
BulkEmpty ==
  /\ pc = "bulk"
  /\ bulk.words = <<>>
  /\ pc' = "bulk_done"
  /\ UNCHANGED <<store, job, indexings, version, request, ranking, sorted, written,
                 event, bulk>>

\* one turn of the loop: the list is cut at max_values, the kept part goes
\* into one INSERT, words becomes the remainder, and the loop is left when
\* that is empty
BulkStatement ==
  /\ \/ pc = "bulk" /\ bulk.words # <<>>
     \/ pc = "bulk_loop"
  /\ bulk' = [bulk EXCEPT !.statements = Append(@, KeptWords(bulk.words)),
                          !.words = SplitOff(bulk.words),
                          !.remainder = <<>>]
  /\ pc' = IF bulk'.words = <<>> THEN "bulk_done" ELSE "bulk_loop"
  /\ UNCHANGED <<store, job, indexings, version, request, ranking, sorted, written,
                 event>>

NextBulk == BulkEmpty \/ BulkStatement

\* the thread runs the loop on; nothing else is scheduled
BulkSpec == InitBulk /\ [][NextBulk]_vars /\ WF_vars(NextBulk)

RestartSpec == Init /\ [][NextWithRestart]_vars

TypeOK ==
  /\ pc \in {"scan", "recv", "index_stems", "index_tuples", "indexed", "dropped", "poll", "accepted", "unanswered", "responded", "responded_date",
            "client_panic", "aborted", "scan_panic", "index_panic", "logged"}
  /\ \A r \in monitored_file :
       r.modified \in {0} \cup FirstMtime..(FirstMtime + MaxIndexings - 1)
  /\ indexings \in 0..MaxIndexings

\* ------------------------------------------------------------------------
\* Properties
\* ------------------------------------------------------------------------
PostingsOf(file_id) == {t \in file_reverse_index : t.file = file_id}

FileIds == {r.id : r \in monitored_file} \cup {t.file : t \in file_reverse_index}

\* A token as section 4.B defines it: a maximal run of characters that are
\* neither punctuation nor whitespace.
IsTokenChar(c) == ~IsPunc(c) /\ ~IsWhitespace(c)

TokenStarts(text) ==
  {i \in DOMAIN text : IsTokenChar(text[i]) /\ (i = 1 \/ ~IsTokenChar(text[i - 1]))}

TokenEnd(text, i) ==
  CHOOSE j \in i..Len(text) :
    /\ \A k \in i..j : IsTokenChar(text[k])
    /\ (j = Len(text) \/ ~IsTokenChar(text[j + 1]))

SpecTokens(text) ==
  [n \in 1..Cardinality(TokenStarts(text)) |->
     LET i == CHOOSE x \in TokenStarts(text) :
                Cardinality({y \in TokenStarts(text) : y < x}) = n - 1
     IN  SubSeq(text, i, TokenEnd(text, i))]

\* the postings of a file are one row per token of the text, the i-th token
\* (from 0) at offset i with its surface word
PostingsAreTokensOf(file_id, text) ==
  /\ Cardinality(PostingsOf(file_id)) = Len(SpecTokens(text))
  /\ {<<t.offset, t.word>> : t \in PostingsOf(file_id)}
       = {<<i - 1, SpecTokens(text)[i]>> : i \in DOMAIN SpecTokens(text)}

\* C1: the monitored_file table holds at most one row for each path.
C1_OneRowPerPath ==
  \A r1 \in monitored_file : \A r2 \in monitored_file : r1.path = r2.path => r1 = r2

\* C1 witness: one path has been indexed as "fox" and then, with a newer
\* mtime, as "Dogs fox, dogs caf\u00E9 fox.", and has one row
C1_Witness ==
  /\ pc = "indexed"
  /\ indexings = 2
  /\ Cardinality(monitored_file) = 1
  /\ \E r \in monitored_file : r.modified = FirstMtime + 1
  /\ job.text = TxtDogs
  /\ Cardinality(word_stem) = 4

\* C2: for every file the multiset of the offsets of its postings is exactly
\* {0, ..., N-1} for some N >= 0.
C2_ContiguousOffsets ==
  \A f \in FileIds :
    \A t \in PostingsOf(f) :
      /\ t.offset \in 0..(Cardinality(PostingsOf(f)) - 1)
      /\ \A u \in PostingsOf(f) : u.offset = t.offset => u = t

\* C2 witness: a file of five tokens has been re-indexed with one token
C2_Witness ==
  /\ pc = "indexed"
  /\ Cardinality(monitored_file) = 1
  /\ Cardinality(word_stem) = 5
  /\ Cardinality(file_reverse_index) = 1

\* C3 (as claimed): no two word_stem rows carry the same stem.
C3_UniqueStems ==
  \A r1 \in word_stem : \A r2 \in word_stem : r1.stem = r2.stem => r1 = r2

\* Section 4.B, step 2 of stemming: all code points U+0300..U+035F go
StripDiacritics(w) == SelectSeq(w, LAMBDA c : c \notin 768..863)

\* The canonical stem of section 4.B: NFD, diacritics removed, lowercase,
\* English stemmer, trimmed.
CanonicalStem(word) == Trim(EnglishStem(ToLowercase(StripDiacritics(Nfd(word)))))

\* C4 (as claimed): every posting's stem is the id of an existing word_stem
\* row, and that row's stem is the canonical stem of the posting's surface
\* word.
C4_PostingStemExists ==
  \A t \in file_reverse_index :
    \E w \in word_stem : w.id = t.stem /\ w.stem = CanonicalStem(t.word)

\* C5: when index_file has run for a file, the file's postings are exactly
\* the token sequence of the text just read, and nothing of the text before.
C5_PostingsAreTextRead ==
  pc = "indexed" => PostingsAreTokensOf(job.file_id, job.text)

\* C5 witness: a file that held "Dogs fox, dogs caf\u00E9 fox." has been
\* re-indexed, after a change with a newer mtime, as "fox"
C5_Witness ==
  /\ pc = "indexed"
  /\ job.text = TxtFox
  /\ \E r \in monitored_file : r.id = job.file_id /\ r.modified = FirstMtime + 1
  /\ \E w \in word_stem : w.stem = <<100, 111, 103>>
  /\ Cardinality(monitored_file) = 1
  /\ {<<t.offset, t.word>> : t \in PostingsOf(job.file_id)} = {<<0, <<102, 111, 120>>>>}

\* C6: whenever a query reads the store, each file's postings are the
\* complete tokenization of the one version of the file that index_file read
\* last: never cleared and not yet re-inserted, never partly inserted.
C6_QuerySeesWholeVersions ==
  pc = "responded" =>
    \A f \in monitored_file : PostingsAreTokensOf(f.id, version[f.path])

\* C6 witness: a query is answered, with one path listed, after two files
\* have been indexed and one of them re-indexed
C6_Witness ==
  /\ pc = "responded"
  /\ indexings = 3
  /\ Cardinality(monitored_file) = 2
  /\ \E f \in monitored_file : f.modified = FirstMtime + 1
  /\ Len(sorted) = 2

\* stem_ids of the request at hand
RequestStemIds == StemIds(request, select_all_stems(word_stem))

\* the file has at least one posting for every id in ids
HasAllStems(f, ids) ==
  \A i \in DOMAIN ids : \E t \in PostingsOf(f.id) : t.stem = ids[i]

\* the paths of the response, without the closing empty line
Listed == SubSeq(sorted, 1, Len(sorted) - 1)

\* C7 (as claimed): for a query with at least one known stem, every indexed
\* file with a posting for every id in stem_ids is listed in the response.
C7_AllMatchingListed ==
  (pc = "responded" /\ RequestStemIds # <<>>) =>
    \A f \in monitored_file :
      HasAllStems(f, RequestStemIds) => f.path \in Range(Listed)

\* C8: no file is listed unless it has at least one posting for every id in
\* stem_ids.
C8_OnlyMatchingListed ==
  pc = "responded" =>
    \A i \in DOMAIN Listed :
      \E f \in monitored_file :
        f.path = Listed[i] /\ HasAllStems(f, RequestStemIds)

\* C8 witness: "fox dogs" lists /b and leaves out /a, which holds "fox" only
C8_Witness ==
  /\ pc = "responded"
  /\ request = QFoxDogs
  /\ sorted = <<"/r/b", "">>
  /\ \E f \in monitored_file :
       /\ f.path = "/q/a"
       /\ \E t \in PostingsOf(f.id) : t.stem \in Range(RequestStemIds)
       /\ ~HasAllStems(f, RequestStemIds)

\* the offsets of a file's postings of one stem, ascending
OffsetsOf(file_id, stem) ==
  LET O == {t.offset : t \in {u \in PostingsOf(file_id) : u.stem = stem}}
  IN  [n \in 1..Cardinality(O) |->
         CHOOSE x \in O : Cardinality({y \in O : y < x}) = n - 1]

\* section 4.G step 6: the sum over the pairings of the two-pointer merge
RECURSIVE Pairing(_, _, _, _)
Pairing(o, c, oi, ci) ==
  IF oi > Len(o) \/ ci > Len(c) THEN 0
  ELSE IF c[ci] < o[oi] THEN Pairing(o, c, oi, ci + 1)
  ELSE (IF c[ci] - o[oi] < 2 THEN 3
        ELSE IF c[ci] - o[oi] < 7 THEN 2
        ELSE IF c[ci] - o[oi] <= 20 THEN 1 ELSE 0)
       + Pairing(o, c, oi + 1, ci)

\* C9 (as claimed): for a query with two distinct known stems, a surviving
\* file's score before the literal bonus is 1 plus the sum over the pairings
\* of the two stems' offset lists (in one order of the two stems or the other).
C9_ProximityScore ==
  (pc = "responded" /\ Len(RequestStemIds) = 2) =>
    \A k \in DOMAIN ranking :
      \A f \in {r \in monitored_file : r.path = k} :
        LET a == OffsetsOf(f.id, RequestStemIds[1])
            b == OffsetsOf(f.id, RequestStemIds[2])
        IN  ranking[k].base \in {1 + Pairing(a, b, 1, 1), 1 + Pairing(b, a, 1, 1)}

\* C10 (as claimed): the paths of a response are in non-decreasing order of
\* score, and files with equal scores are in the order of their insertion
\* during collation (the order of their paths).
C10_ScoreThenInsertionOrder ==
  pc = "responded" =>
    \A i \in DOMAIN Listed : \A j \in DOMAIN Listed :
      i < j =>
        /\ ~ScoreGreater(ranking[Listed[i]], ranking[Listed[j]])
        /\ (~ScoreGreater(ranking[Listed[j]], ranking[Listed[i]])
              => PathRank(Listed[i]) < PathRank(Listed[j]))

\* C10 (amended): the paths of a response are in non-decreasing order of
\* score; the order of files with equal scores is not fixed.
C10_AscendingByScore ==
  pc = "responded" =>
    \A i \in DOMAIN Listed : \A j \in DOMAIN Listed :
      i < j => ~ScoreGreater(ranking[Listed[i]], ranking[Listed[j]])

\* C10 witness: a response of two files with different scores
C10_Witness ==
  /\ pc = "responded"
  /\ Len(Listed) = 2
  /\ ScoreGreater(ranking[Listed[2]], ranking[Listed[1]])

\* the directory that holds an entry of the tree
Parent(path) == CHOOSE d \in Dirs : path \in read_dir(d)

FolderNames == {Folders[i].name : i \in DOMAIN Folders}

\* the directories from the configured folder down to the file's own
RECURSIVE DirsAbove(_)
DirsAbove(path) ==
  IF path \in FolderNames THEN {}
  ELSE {Parent(path)} \cup DirsAbove(Parent(path))

\* Section 4.F: what a scan must keep out of the index
KeptOut(path) ==
  \/ \E d \in DirsAbove(path) :
       \E ignore \in {d \o "/.gitignore", d \o "/.hgignore"} \cap FileSet :
         is_excluded(ignore, path)
  \/ \E d \in DirsAbove(path) : file_name(d) \in {<<46, 103, 105, 116>>, <<46, 104, 103>>}
  \/ \E i \in DOMAIN Folders :
       /\ Folders[i].name \in DirsAbove(path)
       /\ ~Folders[i].recurse
       /\ Parent(path) # Folders[i].name

\* the start-up scan is still running
Scanning == pc = "scan" \/ job.ret = "scan"

\* C13: while and after process_folder scans the configured folders (and
\* before the first event), no monitored_file row exists for a file that an
\* ignore file of its own or of an ancestor directory excludes, for a file
\* under .git or .hg, or for a file in a subdirectory of a folder scanned
\* without recursion.
C13_ScanKeepsOut ==
  Scanning => \A r \in monitored_file : r.path \in FileSet /\ ~KeptOut(r.path)

\* C13 witness: the scan has come through /q, /r and /r/d and has made the
\* rows of the three files no rule keeps out
C13_Witness ==
  /\ pc = "scan"
  /\ {r.path : r \in monitored_file} = {p \in FileSet \ {"/r/c.svg"} : ~KeptOut(p)}
  /\ Cardinality(monitored_file) = 3

\* Section 4.F: the paths whose events are dropped: ".git" or ".hg" somewhere
\* in the path, or ".svg" at its end
DroppedPath(path) ==
  LET text == PathText(path)
      n == Len(text)
  IN  \/ \E i \in 1..n : \E j \in i..n :
           SubSeq(text, i, j) \in {<<46, 103, 105, 116>>, <<46, 104, 103>>}
      \/ n >= 4 /\ SubSeq(text, n - 3, n) = <<46, 115, 118, 103>>

\* C14: an event of any kind whose path contains .git or .hg or ends in
\* .svg leaves the three tables unchanged, whatever is found at the path.
C14_DroppedEventLeavesStore ==
  [][\A p \in EventPaths :
       DroppedPath(p) =>
         \A file \in FileStates(p) : process_event(p, file) => UNCHANGED store]_vars

\* C14 witness: process_event has returned early for an event that came when
\* the index held files
C14_Witness ==
  /\ pc = "dropped"
  /\ Cardinality(monitored_file) = 2
  /\ file_reverse_index # {}

\* the lines of a response: the bytes between the newlines
RECURSIVE SplitLines(_, _)
SplitLines(bytes, line) ==
  IF bytes = <<>> THEN <<line>>
  ELSE IF Head(bytes) = 10 THEN <<line>> \o SplitLines(Tail(bytes), <<>>)
  ELSE SplitLines(Tail(bytes), Append(line, Head(bytes)))

RequestedDay ==
  CASE request = QOn15 -> 1700006400       \* 2023-11-15 00:00:00
    [] request = QAgo16 -> 1700092800      \* 2023-11-16 00:00:00

ModifiedOf(path) == (CHOOSE r \in monitored_file : r.path = path).modified

\* C12 (as claimed): an @on or @ago request for a date with day start D
\* returns exactly the paths of the rows with D <= modified < D + 86400, in
\* ascending order of modified.
C12_HalfOpenDay ==
  (pc = "responded_date" /\ request \in {QOn15, QAgo16}) =>
    /\ Range(Listed) = {r.path : r \in {x \in monitored_file :
                                          /\ RequestedDay <= x.modified
                                          /\ x.modified < RequestedDay + 86400}}
    /\ \A i \in DOMAIN Listed : \A j \in DOMAIN Listed :
         i < j => /\ Listed[i] # Listed[j]
                  /\ ModifiedOf(Listed[i]) <= ModifiedOf(Listed[j])

\* C15 (as claimed): no client behaviour stops the server loop.
C15_ClientsNeverStopLoop == pc # "client_panic"

\* C16 (as claimed), the part a finite run decides: a connection that has
\* been accepted has its request read and dispatched and gets a response
\* before it is closed, also when the request bytes arrive after the accept.
C16_AcceptedIsAnswered == pc # "unanswered"

\* C17: across scans and events, the modified value stored for a path never
\* decreases.
C17_ModifiedNeverDecreases ==
  [][\A r \in monitored_file :
       \A r2 \in monitored_file' : r2.path = r.path => r2.modified >= r.modified]_vars

\* C17 witness: the modified value of one row has been raised twice, by the
\* scan and by events
C17_Witness ==
  /\ pc = "poll"
  /\ \E r \in monitored_file : r.modified = FirstMtime + 2

\* C18: indexing a file again with the content it had the time before (and
\* a newer mtime) yields the same set of postings (file, stem, offset, word)
\* and adds no word_stem row.
C18_ReindexSameContent ==
  (pc = "indexed" /\ job.known /\ job.old_text = job.text) =>
    /\ {<<t.file, t.stem, t.offset, t.word>> : t \in PostingsOf(job.file_id)}
         = job.old_postings
    /\ word_stem = job.old_stems

\* C18 witness: a file of five tokens, two of them with stems that occur
\* twice, has been indexed again with the same text
C18_Witness ==
  /\ pc = "indexed"
  /\ job.known
  /\ job.old_text = TxtDogs
  /\ job.text = TxtDogs
  /\ Cardinality(job.old_postings) = 5

\* a word without its diacritics and in lower case
Fold(word) == ToLowercase(StripDiacritics(Nfd(word)))

\* C19 (as claimed): a word and the same word with its diacritics removed
\* have the same stem, so a request word finds the postings of every file
\* word that differs from it in diacritics (or case) only.
C19_AccentFold ==
  pc = "responded" =>
    \A t \in file_reverse_index :
      \A i \in DOMAIN Tokens(request) :
        Fold(Tokens(request)[i]) = Fold(t.word) =>
          /\ stem_word(Tokens(request)[i]) = stem_word(t.word)
          /\ QueryIds(request, select_all_stems(word_stem))[i] = t.stem

\* C20: when reading the file fails, index_file still runs to its end: the
\* file's row exists afterwards, the file has no postings (those it had are
\* cleared), and no word_stem row is added.
C20_ReadFailureIsEmptyText ==
  (pc = "indexed" /\ job.read_failed) =>
    /\ \E r \in monitored_file : r.path = job.path /\ r.id = job.file_id
    /\ PostingsOf(job.file_id) = {}
    /\ word_stem = job.old_stems

\* C20 witness: index_file has run to its end for a file it could not read,
\* which had five postings from the time before
C20_Witness ==
  /\ pc = "indexed"
  /\ job.read_failed
  /\ job.known
  /\ Cardinality(job.old_postings) = 5
  /\ \E r \in monitored_file : r.path = job.path /\ r.modified = FirstMtime + 1

\* C21: an ignore file of a scanned directory that cannot be parsed does not
\* end the process: the scan never stops on the unwrap of
\* gitignore::File::new, it goes on with the files of the directory.
C21_UnparsableIgnoreKeepsScanning == pc # "scan_panic"

\* C22: handling a client request, whatever it asks for and whether its
\* terms are known or not, leaves the three tables as they are; the tables
\* change only in the scan, in the handling of an event and in the index_file
\* call these start.
C22_RequestsLeaveStore ==
  [][/\ (pc = "accepted" \/ pc' \in {"responded", "responded_date"}) => store' = store
     /\ store' # store => pc \in {"scan", "recv", "index_stems", "index_tuples"}]_vars

\* a request with a term no file holds ("emu") has been answered while the
\* tables held rows
C22_Witness ==
  /\ pc = "responded"
  /\ request = from_utf8(QEmuDog).text
  /\ \E i \in DOMAIN Tokens(request) :
       stem_word(Tokens(request)[i]) \notin DOMAIN select_all_stems(word_stem)
  /\ word_stem # {}
  /\ file_reverse_index # {}

\* C23 (as claimed): whatever fails, between two index_file calls no file is
\* recorded with the mtime of a text while its postings are not the complete
\* tokenization of that text; such a file would be skipped by every later
\* index decision until its mtime changes.
C23_NoSilentCorruption ==
  pc \in {"scan", "recv", "poll"} =>
    \A f \in monitored_file :
      Decision(monitored_file, f.path, f.modified) = "fresh"
        => PostingsAreTokensOf(f.id, version[f.path])

\* C24: process_file, from the scan or from an event.  It touches the store
\* only for an unknown path, which gets one new row with the current mtime
\* and the id index_file is called with, or for a known path whose stored
\* modified is smaller than the current mtime, which keeps its row and id
\* with modified set to the current mtime; index_file is called in these two
\* cases.  With a stored modified greater than or equal to the current mtime
\* nothing in the three tables changes.
C24_ProcessFileCases ==
  [][(pc \in {"scan", "recv"}) =>
       IF pc' = "index_stems"
       THEN LET p == job'.path
                m == job'.last_modified
                old == {r \in monitored_file : r.path = p}
            IN  /\ word_stem' = word_stem
                /\ {t \in file_reverse_index' : t.file # job'.file_id}
                      = {t \in file_reverse_index : t.file # job'.file_id}
                /\ IF old = {}
                   THEN \E r \in monitored_file' :
                          /\ r.path = p /\ r.modified = m /\ r.id = job'.file_id
                          /\ r.id \notin {o.id : o \in monitored_file}
                          /\ monitored_file' = monitored_file \cup {r}
                   ELSE \E o \in old :
                          /\ o.modified < m
                          /\ job'.file_id = o.id
                          /\ monitored_file' =
                               (monitored_file \ {o}) \cup {[o EXCEPT !.modified = m]}
       ELSE store' = store]_vars

\* a known path has come up with a newer mtime: its row holds the new mtime
\* under the old id, and index_file has begun
C24_Witness ==
  /\ pc = "index_stems"
  /\ job.known
  /\ job.old_postings # {}
  /\ job.last_modified = FirstMtime + 1
  /\ \E r \in monitored_file :
       r.path = job.path /\ r.id = job.file_id /\ r.modified = job.last_modified
  /\ Cardinality(monitored_file) = 2

\* C25: a Rename, Rescan or Error event changes none of the three tables,
\* and the loop goes on to the poll after it; after Rename(old, new) the
\* postings of old are the same rows under the same file, and new has the
\* rows it had.
C25_LoggedEventsLeaveStore ==
  [][/\ event' # NoEvent
         => /\ pc' = "logged"
            /\ store' = store
     /\ pc = "logged"
         => /\ pc' = "poll"
            /\ store' = store]_vars

\* Rename(/q/a, /r/b) has come in while /q/a was indexed with postings and
\* /r/b had no row
C25_Witness ==
  /\ pc = "logged"
  /\ event = [kind |-> "Rename", old |-> "/q/a", new |-> "/r/b"]
  /\ \E f \in monitored_file : f.path = event.old /\ PostingsOf(f.id) # {}
  /\ \A f \in monitored_file : f.path # event.new

C27_RemovedFileStaysIndexed ==
  [][\A p \in PathSet :
       (select_file(monitored_file, p) # {} /\ process_event(p, MissingFile))
         => /\ store' = store
            /\ pc' = "poll"]_vars

====
